---- MODULE Spec2Model ----
(***************************************************************************)
(* Model of the qmud LLM request layer and of its books engine.            *)
(*                                                                         *)
(*  - js/ai.js   AIClient: auth cache, throttle before enqueue, the        *)
(*               _requestInFlight/_requestQueue hand-off, response          *)
(*               handling of callLLM and generateImage.                     *)
(*  - js/app.js  the earlier AIClient: Responses API call with the          *)
(*               chat-completions fallback.                                 *)
(*  - js/books.js BooksEngine: the book session kept in state.bookSession,  *)
(*               open / choose / close / resume and the page generation     *)
(*               that completes after an await.                             *)
(*                                                                         *)
(* JavaScript runs one macrotask at a time, so every action below is one   *)
(* macrotask together with the microtasks it triggers.  Times are whole    *)
(* milliseconds of Date.now().                                             *)
(***************************************************************************)
EXTENDS Integers, Sequences, FiniteSets, TLC

\* ------------------------------------------------------------------ bounds
NumTasks == 2          \* invocations of callLLM / generateImage per run
ExtraTasks == 1        \* further invocations in the runs about queue order
StartClock == 100000   \* Date.now() when the client is constructed
MaxElapsed == 2000     \* free running of the clock after construction
MaxSessions == 2       \* book session objects created per run
MaxGens == 2           \* page generation calls per run
ExtraOpens == 1        \* further session objects in the runs about reopening
ExtraGens == 2         \* further generation calls in those runs
MaxAsks == 2           \* questions to a book awaiting their answer at a time
MaxApplies == 3        \* steps in a run of effects applications
MaxLen == 5            \* tokens in a text given to extractJSON
MaxCalls == 7          \* further calls of one caller that calls again and again

\* ------------------------------------------------------- program constants
LlmBaseInterval == 1000
LlmMaxInterval == 10000
ImageBaseInterval == 3000
ImageMaxInterval == 30000
HandoffDelay == 100

Tasks == 1..(NumTasks + ExtraTasks)
Categories == {"text", "image"}
NoKey == "null"
Keys == {"sk-1", "sk-2"}
\* the keys are entered in this order, each at most once
KeyRank(k) == IF k = NoKey THEN 0 ELSE IF k = "sk-1" THEN 1 ELSE 2
NoHeader == <<"null">>
\* getApiBase() || 'https://api.openai.com'
ApiBase == "https://api.openai.com"

Min(a, b) == IF a < b THEN a ELSE b
Max(a, b) == IF a > b THEN a ELSE b

\* `Bearer ${currentKey}`
Bearer(k) == <<"Bearer", k>>

\* fetch outcomes: status 0 stands for a rejected fetch (network error);
\* retryAfter is the server's Retry-After hint in seconds (0: none);
\* body tells whether a 200 response carries the expected payload.
Responses ==
  {[status |-> 200, retryAfter |-> 0, body |-> b] : b \in {"data", "nodata"}}
  \cup {[status |-> 429, retryAfter |-> h, body |-> "error"] : h \in {0, 5}}
  \cup {[status |-> s, retryAfter |-> 0, body |-> "error"] : s \in {401, 500}}
  \cup {[status |-> 0, retryAfter |-> 0, body |-> "none"]}

\* js/app.js: invocations of the earlier client's callLLM
LegacyCalls == 1..NumTasks

\* what the Responses API request can come back with: the fetch rejects
\* ("neterr"), the body is no JSON ("notjson"), JSON carrying output text
\* ("text"), JSON without text ("empty"), or a JSON error object ("error")
PrimaryResponses ==
  {[ok |-> TRUE, body |-> b] : b \in {"text", "empty", "notjson"}}
  \cup {[ok |-> FALSE, body |-> b] : b \in {"error", "notjson", "neterr"}}


VARIABLES
  now,                  \* Date.now()
  apiKey,               \* game.apiKey, read through getApiKey
  lastLLMTime, llmMinInterval, lastImageGenTime, imageGenMinInterval,
  _cachedApiKey, _cachedAuthHeader, _cachedBase,
  _requestInFlight, _requestQueue,
  status,               \* last onStatus(type, status, ...) of each category
  tokenCalls,           \* number of onTokens calls
  pc,                   \* where each invocation is
  cat,                  \* its category
  authHeader,           \* the header it captured at invocation
  wake,                 \* deadline of its pending setTimeout (0: none)
  result,               \* how its promise settled
  \* observation (history) variables, not program state
  sent,                 \* number of fetches each invocation issued
  stale,                \* a 401 was processed after the header was captured
  submitSeq,            \* invocations in the order they called executeWithQueue
  blockedUntil,         \* the backoff deadline of section 4.1 of the spec
  blockedCat,           \* category of the call that received the last 429
  ev,                   \* the last step taken
  \* the earlier client of js/app.js
  lpc,                  \* where each callLLM invocation of that client is
  lprimary,             \* what its Responses API request came back with
  lsent,                \* number of requests it sent
  lresult,              \* how its promise settled
  legacyStatus,         \* last updateStatus('ai', ...)
  tokenBumps,           \* number of bumpTokens calls
  \* the books engine of js/books.js and the game state it works on
  started,              \* the setup screen was left
  aiEnabled,            \* game.aiEnabled
  playerId,             \* game.playerId
  sessions,             \* the session objects made so far, oldest first
  bookSession,          \* state.bookSession: a position in sessions, 0: null
  gens,                 \* the _generatePage calls made so far
  stats,                \* state.insight and state.hp
  bev,                  \* the last step of the books engine (observation)
  askPending,           \* ask() calls whose callLLM has not resolved
  \* the player state that _applyEffects works on, in runs of effects alone
  player,               \* truthDensity, quantumState, shadowIntegration,
                        \* insight, hp
  applied,              \* number of steps taken in such a run
  fxev,                 \* the last of those steps (observation)
  \* one call of extractJSON
  text,                 \* its argument
  parsed,               \* what it returned
  calls,                \* invocations made after an earlier one had settled
  \* the game state that enterRoom of js/game.js works on
  room                  \* aterna.enabled, currentRoom, visitedRooms,
                        \* quantumState.coherence, shadowIntegration, the
                        \* awaits the running enterRoom has before it, the
                        \* rooms entered so far and the last step

aiVars == <<now, apiKey, lastLLMTime, llmMinInterval, lastImageGenTime,
            imageGenMinInterval, _cachedApiKey, _cachedAuthHeader,
            _cachedBase, _requestInFlight, _requestQueue, status, tokenCalls,
            pc, cat, authHeader, wake,
            result, sent, stale, submitSeq, blockedUntil, blockedCat, ev>>

legacyVars == <<lpc, lprimary, lsent, lresult, legacyStatus, tokenBumps>>

bookVars == <<started, aiEnabled, playerId, sessions, bookSession, gens,
              stats, bev>>


fxVars == <<player, applied, fxev>>



restVars == <<askPending, fxVars, text, parsed, calls, room>>

vars == <<aiVars, legacyVars, bookVars, restVars>>

\* constructor, ai.js 5-34
Init ==
  /\ now = StartClock
  /\ apiKey = NoKey
  /\ lastLLMTime = 0
  /\ llmMinInterval = LlmBaseInterval
  /\ lastImageGenTime = 0
  /\ imageGenMinInterval = ImageBaseInterval
  /\ _cachedApiKey = NoKey
  /\ _cachedAuthHeader = NoHeader
  /\ _cachedBase = "null"
  /\ _requestInFlight = FALSE
  /\ status = [c \in Categories |-> "inactive"]
  /\ tokenCalls = 0
  /\ _requestQueue = <<>>
  /\ pc = [t \in Tasks |-> "new"]
  /\ cat = [t \in Tasks |-> "none"]
  /\ authHeader = [t \in Tasks |-> NoHeader]
  /\ wake = [t \in Tasks |-> 0]
  /\ result = [t \in Tasks |-> "pending"]
  /\ sent = [t \in Tasks |-> 0]
  /\ stale = [t \in Tasks |-> FALSE]
  /\ submitSeq = <<>>
  /\ blockedUntil = 0
  /\ blockedCat = "none"
  /\ ev = [op |-> "init", t |-> 0, cat |-> "none", status |-> 0,
           prev |-> 0, stale |-> FALSE]
  /\ lpc = [i \in LegacyCalls |-> "new"]
  /\ lprimary = [i \in LegacyCalls |-> [ok |-> FALSE, body |-> "none"]]
  /\ lsent = [i \in LegacyCalls |-> 0]
  /\ lresult = [i \in LegacyCalls |-> "pending"]
  /\ legacyStatus = "inactive"
  /\ tokenBumps = 0
  /\ started = FALSE
  /\ aiEnabled = FALSE
  /\ playerId = ""
  /\ sessions = <<>>
  /\ bookSession = 0
  /\ gens = <<>>
  /\ stats = [insight |-> 0, hp |-> 100]
  /\ bev = [op |-> "init", token |-> <<>>, book |-> <<>>, g |-> 0, s |-> 0,
            created |-> FALSE, issued |-> 0, render |-> <<>>, chosen |-> 0,
            msg |-> "none",
            before |-> [pages |-> [p \in {} |-> 0], path |-> <<>>,
                        current |-> "", stored |-> 0],
            reply |-> "none", wasActive |-> FALSE,
            prompt |-> [path |-> <<>>, stats |-> [insight |-> 0, hp |-> 0]],
            pub |-> [topic |-> <<>>, path |-> <<>>, page_id |-> "",
                     current |-> ""]]
  /\ askPending = 0
  /\ player = [truthDensity |-> 500,
               quantumState |-> [kind |-> "object", n |-> 0],
               shadowIntegration |-> 0, insight |-> 0, hp |-> 100000]
  /\ applied = 0
  /\ fxev = [op |-> "init",
             effects |-> [truth |-> [kind |-> "absent", n |-> 0],
                          quantum |-> [kind |-> "absent", n |-> 0],
                          shadow |-> [kind |-> "absent", n |-> 0],
                          insight |-> [kind |-> "absent", n |-> 0],
                          hp |-> [kind |-> "absent", n |-> 0]],
             n |-> 0, threw |-> FALSE,
             before |-> [truthDensity |-> 500,
                         quantumState |-> [kind |-> "object", n |-> 0],
                         shadowIntegration |-> 0, insight |-> 0,
                         hp |-> 100000]]
  /\ text = <<>>
  /\ parsed = [called |-> FALSE, ok |-> FALSE, value |-> <<>>]
  /\ calls = 0
  /\ room = [aterna |-> FALSE, currentRoom |-> "", visitedRooms |-> {},
             coherence |-> 0, shadowIntegration |-> 0, awaiting |-> 0,
             trail |-> <<>>, last |-> "init"]

\* a step: its kind, the invocation and category it concerns, the HTTP
\* status received (respond), and for a start the previous start time of the
\* category and whether the header sent predates a 401
Ev(op, t, c, st, prev, sl) ==
  [op |-> op, t |-> t, cat |-> c, status |-> st, prev |-> prev, stale |-> sl]

\* ------------------------------------------------------------- auth cache
\* getAuthHeader, ai.js 39-49: the cache after the call
AuthCacheAfterGet ==
  IF apiKey # _cachedApiKey
  THEN [key |-> apiKey,
        header |-> IF apiKey # NoKey THEN Bearer(apiKey) ELSE NoHeader]
  ELSE [key |-> _cachedApiKey, header |-> _cachedAuthHeader]

\* variant: the 401 branch forgets to clear the cached header
AuthCacheKeepsHeader(r) ==
  IF r.status = 401
  THEN [key |-> NoKey, header |-> _cachedAuthHeader]
  ELSE [key |-> _cachedApiKey, header |-> _cachedAuthHeader]

\* the 401 branches, ai.js 152-156 and 253-257: the cache after a response
AuthCacheAfterResponse(r) ==
  IF r.status = 401
  THEN [key |-> NoKey, header |-> NoHeader]
  ELSE [key |-> _cachedApiKey, header |-> _cachedAuthHeader]

\* getCachedBase, ai.js 54-62: the cached base after the call
BaseAfterGet == IF ApiBase # _cachedBase THEN ApiBase ELSE _cachedBase

\* ---------------------------------------------------------------- throttle
LastTime(c) == IF c = "text" THEN lastLLMTime ELSE lastImageGenTime
MinInterval(c) == IF c = "text" THEN llmMinInterval ELSE imageGenMinInterval

\* ai.js 110-115 and 195-201: 0 when the call need not wait
WaitTime(c) ==
  LET since == now - LastTime(c)
  IN IF since < MinInterval(c) THEN MinInterval(c) - since ELSE 0

\* variant: the interval grows without a cap
IntervalAfter429Uncapped(x, cap) == (x * 3) \div 2

\* Math.min(x * 1.5, cap), ai.js 151 and 252 (whole milliseconds)
IntervalAfter429(x, cap) == Min((x * 3) \div 2, cap)
\* Math.max(floor, x * 0.9), ai.js 171 and 272 (whole milliseconds)
IntervalAfterSuccess(x, floor) == Max(floor, (x * 9) \div 10)

\* variant: every failed call slows the client down
LlmIntervalAfterFailure(r) ==
  IF r.status = 200
  THEN IntervalAfterSuccess(llmMinInterval, LlmBaseInterval)
  ELSE IntervalAfter429(llmMinInterval, LlmMaxInterval)

\* callLLM's response handling, ai.js 144-178: the new llmMinInterval
LlmIntervalAfter(r) ==
  IF r.status = 429 THEN IntervalAfter429(llmMinInterval, LlmMaxInterval)
  ELSE IF r.status = 200
       THEN IntervalAfterSuccess(llmMinInterval, LlmBaseInterval)
       ELSE llmMinInterval

\* generateImageWithImageAPI, ai.js 245-277: the new imageGenMinInterval
ImageIntervalAfter(r) ==
  IF r.status = 429 THEN IntervalAfter429(imageGenMinInterval, ImageMaxInterval)
  ELSE IF r.status = 200 /\ r.body = "data"
       THEN IntervalAfterSuccess(imageGenMinInterval, ImageBaseInterval)
       ELSE imageGenMinInterval

\* variant: an unexpected status is thrown out of the task body
TaskOutcomeThrowing(c, r) ==
  IF r.status = 200 /\ (c = "text" \/ r.body = "data") THEN "value"
  ELSE IF r.status = 500 THEN "rejected" ELSE "null"

\* what the task body returns or throws, ai.js 160, 173, 177 (text: the content
\* string, possibly empty) and 220, 261, 274, 277 (image: the data URL or null)
TaskOutcome(c, r) ==
  IF r.status = 200 /\ (c = "text" \/ r.body = "data") THEN "value" ELSE "null"

\* the onStatus call at the end of the task body, ai.js 149, 156, 158, 168,
\* 176 (text) and 219, 250, 257, 259, 269 (image); a 200 image response
\* without b64_json returns with no onStatus call (277)
StatusAfter(c, r) ==
  IF r.status = 200
  THEN IF c = "text" \/ r.body = "data" THEN "active" ELSE status[c]
  ELSE "error"

\* ------------------------------------------------------------------- queue
\* variant: the in-flight test is skipped
QueueBusyNever == FALSE

\* ai.js 70: the test that decides between queueing and running
QueueBusy == _requestInFlight

\* ai.js 83: the flag after the finally block
FlightAfterFinally == FALSE

\* execute(), ai.js 69-78, up to the fetch of the task body (118/204, 127/229)
Execute(t, c, hdr) ==
  IF QueueBusy
  THEN /\ _requestQueue' = Append(_requestQueue, t)
       /\ pc' = [pc EXCEPT ![t] = "queued"]
       /\ wake' = [wake EXCEPT ![t] = 0]
       /\ ev' = Ev("enqueue", t, c, 0, 0, FALSE)
       /\ UNCHANGED <<_requestInFlight, lastLLMTime, lastImageGenTime, sent,
                      status>>
  ELSE /\ _requestInFlight' = TRUE
       /\ pc' = [pc EXCEPT ![t] = "running"]
       /\ wake' = [wake EXCEPT ![t] = 0]
       /\ lastLLMTime' = IF c = "text" THEN now ELSE lastLLMTime
       /\ lastImageGenTime' = IF c = "image" THEN now ELSE lastImageGenTime
       /\ sent' = [sent EXCEPT ![t] = @ + 1]
       /\ status' = [status EXCEPT ![c] = "processing"]
       /\ ev' = Ev("start", t, c, 0, LastTime(c), stale[t])
       /\ UNCHANGED _requestQueue

\* variant: the finally block releases the flag and forgets the queue
FinallyWithoutHandoff(t) ==
  /\ _requestInFlight' = FlightAfterFinally
  /\ pc' = [pc EXCEPT ![t] = "done"]
  /\ UNCHANGED <<_requestQueue, wake>>

\* the finally block, ai.js 82-90
Finally(t) ==
  /\ _requestInFlight' = FlightAfterFinally
  /\ IF Len(_requestQueue) > 0
     THEN LET next == Head(_requestQueue)
          IN /\ _requestQueue' = Tail(_requestQueue)
             /\ pc' = [pc EXCEPT ![t] = "done", ![next] = "handoff"]
             /\ wake' = [wake EXCEPT ![next] = now + HandoffDelay]
     ELSE /\ pc' = [pc EXCEPT ![t] = "done"]
          /\ UNCHANGED <<_requestQueue, wake>>

\* ----------------------------------------------------------------- actions
\* callLLM / generateImage up to the first suspension, ai.js 100-117, 185-203
Invoke(t, c) ==
  /\ UNCHANGED <<legacyVars, bookVars, restVars>>
  /\ pc[t] = "new"
  /\ \A u \in Tasks : u < t => pc[u] # "new"
  /\ LET ck == AuthCacheAfterGet
     IN /\ _cachedApiKey' = ck.key
        /\ _cachedAuthHeader' = ck.header
        /\ _cachedBase' = BaseAfterGet
        /\ cat' = [cat EXCEPT ![t] = c]
        /\ authHeader' = [authHeader EXCEPT ![t] = ck.header]
        /\ IF ck.header = NoHeader
           THEN /\ pc' = [pc EXCEPT ![t] = "done"]
                /\ result' = [result EXCEPT ![t] = "null"]
                /\ ev' = Ev("nokey", t, c, 0, 0, FALSE)
                /\ UNCHANGED <<_requestInFlight, _requestQueue, wake, status,
                               lastLLMTime, lastImageGenTime, sent, submitSeq>>
           ELSE IF WaitTime(c) > 0
           THEN /\ pc' = [pc EXCEPT ![t] = "throttle"]
                /\ wake' = [wake EXCEPT ![t] = now + WaitTime(c)]
                /\ ev' = Ev("throttle", t, c, 0, 0, FALSE)
                /\ UNCHANGED <<_requestInFlight, _requestQueue, result, status,
                               lastLLMTime, lastImageGenTime, sent, submitSeq>>
           ELSE /\ Execute(t, c, ck.header)
                /\ submitSeq' = Append(submitSeq, t)
                /\ UNCHANGED result
  /\ UNCHANGED <<now, apiKey, llmMinInterval, imageGenMinInterval, stale,
                 tokenCalls, blockedUntil, blockedCat>>

\* the throttle timer fires, ai.js 114/200, and the call enters the queue
ThrottleDone(t) ==
  /\ UNCHANGED <<legacyVars, bookVars, restVars>>
  /\ pc[t] = "throttle"
  /\ now >= wake[t]
  /\ Execute(t, cat[t], authHeader[t])
  /\ submitSeq' = Append(submitSeq, t)
  /\ UNCHANGED <<now, apiKey, llmMinInterval, imageGenMinInterval,
                 _cachedApiKey, _cachedAuthHeader, _cachedBase, tokenCalls,
                 cat, authHeader, result, stale, blockedUntil, blockedCat>>

\* setTimeout(next, 100) fires, ai.js 88: execute() runs again
HandoffFire(t) ==
  /\ UNCHANGED <<legacyVars, bookVars, restVars>>
  /\ pc[t] = "handoff"
  /\ now >= wake[t]
  /\ Execute(t, cat[t], authHeader[t])
  /\ UNCHANGED <<now, apiKey, llmMinInterval, imageGenMinInterval,
                 _cachedApiKey, _cachedAuthHeader, _cachedBase, tokenCalls,
                 cat, authHeader, result, stale, submitSeq, blockedUntil,
                 blockedCat>>

\* the deadline the spec's section 4.1 asks for after a 429 received at `at`
SpecBlockedUntil(at, hint) == at + (IF hint > 0 THEN hint * 1000 ELSE 8 * 1000)

\* the fetch settles and the task body runs to its end, ai.js 144-178 and
\* 217-221, 245-277, then resolve and the finally block, ai.js 79-90
Respond(t, r) ==
  /\ UNCHANGED <<legacyVars, bookVars, restVars>>
  /\ pc[t] = "running"
  /\ llmMinInterval' =
       IF cat[t] = "text" THEN LlmIntervalAfter(r) ELSE llmMinInterval
  /\ imageGenMinInterval' =
       IF cat[t] = "image" THEN ImageIntervalAfter(r) ELSE imageGenMinInterval
  /\ _cachedApiKey' = AuthCacheAfterResponse(r).key
  /\ _cachedAuthHeader' = AuthCacheAfterResponse(r).header
  /\ result' = [result EXCEPT ![t] = TaskOutcome(cat[t], r)]
  /\ status' = [status EXCEPT ![cat[t]] = StatusAfter(cat[t], r)]
  /\ tokenCalls' =
       IF cat[t] = "text" /\ r.status = 200 THEN tokenCalls + 1 ELSE tokenCalls
  /\ Finally(t)
  /\ stale' = [u \in Tasks |->
                 stale[u] \/ (r.status = 401
                              /\ pc[u] \in {"throttle", "queued", "handoff"})]
  /\ blockedUntil' =
       IF r.status = 429 THEN SpecBlockedUntil(now, r.retryAfter)
       ELSE blockedUntil
  /\ blockedCat' = IF r.status = 429 THEN cat[t] ELSE blockedCat
  /\ ev' = Ev("respond", t, cat[t], r.status, 0, FALSE)
  /\ UNCHANGED <<now, apiKey, lastLLMTime, lastImageGenTime, _cachedBase, cat,
                 authHeader, sent, submitSeq>>

\* the player enters an API key, game.js 204-210
SetApiKey(k) ==
  /\ UNCHANGED <<legacyVars, bookVars, restVars>>
  /\ KeyRank(k) > KeyRank(apiKey)
  /\ apiKey' = k
  /\ ev' = Ev("setkey", 0, "none", 0, 0, FALSE)
  /\ UNCHANGED <<now, lastLLMTime, llmMinInterval, lastImageGenTime,
                 imageGenMinInterval, _cachedApiKey, _cachedAuthHeader,
                 _cachedBase, _requestInFlight, _requestQueue, status,
                 tokenCalls, pc, cat, authHeader, wake,
                 result, sent, stale, submitSeq, blockedUntil, blockedCat>>

\* ------------------------------------------------------------------- clock
Pending == {t \in Tasks : pc[t] \in {"throttle", "handoff"}}

\* the clock advances, never past the deadline of a pending timer
Tick(d) ==
  /\ UNCHANGED <<legacyVars, bookVars, restVars>>
  /\ now + d <= StartClock + MaxElapsed
  /\ \A t \in Pending : wake[t] >= now + d
  /\ now' = now + d
  /\ ev' = Ev("tick", 0, "none", 0, 0, FALSE)
  /\ UNCHANGED <<apiKey, lastLLMTime, llmMinInterval, lastImageGenTime,
                 imageGenMinInterval, _cachedApiKey, _cachedAuthHeader,
                 _cachedBase, _requestInFlight, _requestQueue, status,
                 tokenCalls, pc, cat, authHeader, wake,
                 result, sent, stale, submitSeq, blockedUntil, blockedCat>>

\* the clock reaches the earliest pending timer deadline
AdvanceToTimer ==
  /\ UNCHANGED <<legacyVars, bookVars, restVars>>
  /\ Pending # {}
  /\ \A t \in Pending : wake[t] > now
  /\ now' = CHOOSE w \in {wake[t] : t \in Pending} :
              \A t \in Pending : w <= wake[t]
  /\ ev' = Ev("tick", 0, "none", 0, 0, FALSE)
  /\ UNCHANGED <<apiKey, lastLLMTime, llmMinInterval, lastImageGenTime,
                 imageGenMinInterval, _cachedApiKey, _cachedAuthHeader,
                 _cachedBase, _requestInFlight, _requestQueue, status,
                 tokenCalls, pc, cat, authHeader, wake,
                 result, sent, stale, submitSeq, blockedUntil, blockedCat>>

\* ------------------------------------------------------- repeated calls
\* the caller whose invocation t has settled calls again, in a run of at
\* most n such calls: the invocation starts afresh
NextCall(t, n) ==
  /\ UNCHANGED <<legacyVars, bookVars, askPending, fxVars, text, parsed, room>>
  /\ pc[t] = "done"
  /\ calls < n
  /\ calls' = calls + 1
  /\ pc' = [pc EXCEPT ![t] = "new"]
  /\ cat' = [cat EXCEPT ![t] = "none"]
  /\ authHeader' = [authHeader EXCEPT ![t] = NoHeader]
  /\ result' = [result EXCEPT ![t] = "pending"]
  /\ sent' = [sent EXCEPT ![t] = 0]
  /\ stale' = [stale EXCEPT ![t] = FALSE]
  /\ submitSeq' = SelectSeq(submitSeq, LAMBDA u : u # t)
  /\ ev' = Ev("again", t, "none", 0, 0, FALSE)
  /\ UNCHANGED <<now, apiKey, lastLLMTime, llmMinInterval, lastImageGenTime,
                 imageGenMinInterval, _cachedApiKey, _cachedAuthHeader,
                 _cachedBase, _requestInFlight, _requestQueue, status,
                 tokenCalls, wake, blockedUntil, blockedCat>>

\* what the images endpoint answers in the runs of one caller: an image, a
\* 200 without image data, 429, 401, or the fetch rejects
ImageOutcomes ==
  {r \in Responses : r.retryAfter = 0 /\ r.status # 500}

\* one caller generates image after image, each call after the one before
\* has settled; the clock moves from timer to timer
SerialNext ==
  \/ SetApiKey("sk-1")
  \/ Invoke(1, "image")
  \/ ThrottleDone(1)
  \/ \E r \in ImageOutcomes : Respond(1, r)
  \/ AdvanceToTimer
  \/ NextCall(1, MaxCalls)

SerialSpec == Init /\ [][SerialNext]_vars

\* ------------------------------------------------- the client of js/app.js
\* whether the try block of callLLM ends in the catch block, app.js 36-55:
\* fetch or r.json() throws, or no text came back and the status is an error
PrimaryFallsBack(r) ==
  \/ r.body \in {"neterr", "notjson"}
  \/ (r.body # "text" /\ ~r.ok)

\* data?.usage, app.js 47-50
PrimaryHasUsage(r) == r.body = "text"

\* callLLM up to the first fetch, app.js 25-45
LegacyCall(i) ==
  /\ lpc[i] = "new"
  /\ \A j \in LegacyCalls : j < i => lpc[j] # "new"
  /\ IF apiKey = NoKey
     THEN /\ lpc' = [lpc EXCEPT ![i] = "done"]
          /\ lresult' = [lresult EXCEPT ![i] = "rejected"]
          /\ UNCHANGED <<lsent, legacyStatus>>
     ELSE /\ lpc' = [lpc EXCEPT ![i] = "primary"]
          /\ lsent' = [lsent EXCEPT ![i] = 1]
          /\ legacyStatus' = "processing"
          /\ UNCHANGED lresult
  /\ UNCHANGED <<lprimary, tokenBumps>>
  /\ UNCHANGED <<aiVars, bookVars, restVars>>

\* the Responses API request settles, app.js 46-65 (and 70-72 on return)
LegacyPrimaryRespond(i, r) ==
  /\ lpc[i] = "primary"
  /\ lprimary' = [lprimary EXCEPT ![i] = r]
  /\ tokenBumps' = IF PrimaryHasUsage(r) THEN tokenBumps + 1 ELSE tokenBumps
  /\ IF PrimaryFallsBack(r)
     THEN /\ lpc' = [lpc EXCEPT ![i] = "secondary"]
          /\ lsent' = [lsent EXCEPT ![i] = @ + 1]
          /\ UNCHANGED <<lresult, legacyStatus>>
     ELSE /\ lpc' = [lpc EXCEPT ![i] = "done"]
          /\ lresult' = [lresult EXCEPT ![i] =
                           IF r.body = "text" THEN "text" ELSE "undefined"]
          /\ legacyStatus' = "active"
          /\ UNCHANGED lsent
  /\ UNCHANGED <<aiVars, bookVars, restVars>>

\* the chat-completions request settles, app.js 66-72
LegacySecondaryRespond(i, r2) ==
  /\ lpc[i] = "secondary"
  /\ lpc' = [lpc EXCEPT ![i] = "done"]
  /\ lresult' = [lresult EXCEPT ![i] =
                   IF r2 \in {"neterr", "notjson"} THEN "rejected"
                   ELSE IF r2 = "text" THEN "text" ELSE "emptystring"]
  /\ tokenBumps' = IF r2 = "text" THEN tokenBumps + 1 ELSE tokenBumps
  /\ legacyStatus' = "active"
  /\ UNCHANGED <<lprimary, lsent>>
  /\ UNCHANGED <<aiVars, bookVars, restVars>>

LegacyNext ==
  \/ \E i \in LegacyCalls : LegacyCall(i)
  \/ \E i \in LegacyCalls, r \in PrimaryResponses : LegacyPrimaryRespond(i, r)
  \/ \E i \in LegacyCalls, r2 \in {"text", "empty", "notjson", "neterr"} :
       LegacySecondaryRespond(i, r2)
  \/ \E k \in Keys : SetApiKey(k)

LegacySpec == Init /\ [][LegacyNext]_vars

\* ============================================================ js/books.js
\* Strings that the engine inspects character by character (tokens, item ids
\* and names, choice ids and labels) are sequences of one-character strings;
\* ids and names are abbreviated.  A missing or empty string is <<>>.
Null == ""
NoId == <<>>
NaN == 0 - 1

DigitVal(ch) ==
  CASE ch = "0" -> 0 [] ch = "1" -> 1 [] ch = "2" -> 2 [] ch = "3" -> 3
    [] ch = "4" -> 4 [] ch = "5" -> 5 [] ch = "6" -> 6 [] ch = "7" -> 7
    [] ch = "8" -> 8 [] OTHER -> 9

DigitChar(n) ==
  CASE n = 0 -> "0" [] n = 1 -> "1" [] n = 2 -> "2" [] n = 3 -> "3"
    [] n = 4 -> "4" [] n = 5 -> "5" [] n = 6 -> "6" [] n = 7 -> "7"
    [] n = 8 -> "8" [] OTHER -> "9"

\* String.prototype.toLowerCase on the letters that occur in the runs
LowerChar(ch) ==
  CASE ch = "A" -> "a" [] ch = "B" -> "b" [] ch = "C" -> "c"
    [] ch = "G" -> "g" [] ch = "M" -> "m" [] ch = "S" -> "s"
    [] OTHER -> ch

ToLower(s) == [i \in 1..Len(s) |-> LowerChar(s[i])]

\* String.prototype.startsWith
StartsWith(s, p) == Len(p) <= Len(s) /\ SubSeq(s, 1, Len(p)) = p

\* String.prototype.includes
Includes(s, sub) ==
  \E i \in 0..(Len(s) - Len(sub)) : SubSeq(s, i + 1, i + Len(sub)) = sub

\* the value of the first k characters of s read as decimal digits
RECURSIVE DecValue(_, _)
DecValue(s, k) ==
  IF k = 0 THEN 0 ELSE 10 * DecValue(s, k - 1) + DigitVal(s[k])

\* parseInt(token, 10), books.js 76: the longest prefix of digits is
\* converted and what follows it is ignored; NaN without a leading digit
\* (the tokens of the runs carry no sign and no leading blank)
ParseInt(s) ==
  LET Digits == {"0", "1", "2", "3", "4", "5", "6", "7", "8", "9"}
      k == Cardinality({n \in 1..Len(s) : \A j \in 1..n : s[j] \in Digits})
  IN IF k = 0 THEN NaN ELSE DecValue(s, k)

\* ----------------------------------------------------------------- content
codex_paths == <<"c", "o", "d">>
mirror_grimoire == <<"m", "g">>
mirror_shard == <<"s", "h">>

\* content.js 12-22: the items the player holds in the runs
Items(id) ==
  CASE id = codex_paths -> [name |-> <<"C", "o", "d", "e", "x">>, type |-> "book"]
    [] id = mirror_grimoire ->
         [name |-> <<"M", "i", "r", "r", "o", "r">>, type |-> "book"]
    [] OTHER -> [name |-> <<"M", "i", "r", "r", "o", "r", "S">>,
                 type |-> "evolution"]

\* state.inventory: the artifact and both books are held
Inventory == <<mirror_shard, codex_paths, mirror_grimoire>>

isBookItem(id) == Items(id).type = "book"

\* what the player types after open / read
OpenTokens ==
  {<<>>, codex_paths, <<"M", "G">>, <<"m", "i", "r">>, <<"s", "h">>}

\* what the player types after choose
ChooseTokens ==
  {<<>>, <<"1">>, <<"2">>, <<"1", "x">>, <<"7">>, <<"a">>, <<"A", "b">>,
   <<"g">>, <<"z">>}

PlayerIds == {"u1", "u2"}

\* ----------------------------------------------------------------- effects
NoEffects == [insight |-> 0, hp |-> 0]
Boon == [insight |-> 4, hp |-> 0]
Wound == [insight |-> 0, hp |-> 0 - 130]

\* _applyEffects, books.js 246-275, for effects objects that carry whole
\* numbers under insight and hp
ApplyEffects(st, e) ==
  [insight |-> st.insight + e.insight,
   hp |-> Max(0, Min(100, st.hp + e.hp))]

\* ------------------------------------------------------- pages and replies
choiceAb == [id |-> <<"a", "b">>, label |-> <<"G", "o">>, effects |-> Boon]
choiceA == [id |-> <<"a">>, label |-> <<"a", "b", "c">>, effects |-> NoEffects]
choiceNoId == [id |-> <<>>, label |-> <<"S", "a">>, effects |-> NoEffects]

MaxChoices == 6

\* objects the model text can parse to; page_id, prose Null and title <<>>
\* stand for a missing field, isArray tells whether choices is an array
LlmObjects ==
  {[page_id |-> "p1", title |-> <<"The Fork">>, prose |-> "prose1",
    effects |-> NoEffects, isArray |-> TRUE, choices |-> <<choiceAb, choiceA>>],
   [page_id |-> "p2", title |-> <<>>, prose |-> "prose2",
    effects |-> Wound, isArray |-> TRUE, choices |-> <<choiceNoId, choiceA>>],
   [page_id |-> "p1", title |-> <<>>, prose |-> "prose3",
    effects |-> NoEffects, isArray |-> FALSE, choices |-> <<>>],
   [page_id |-> Null, title |-> <<>>, prose |-> "prose1",
    effects |-> Boon, isArray |-> TRUE, choices |-> <<choiceA>>],
   [page_id |-> "p2", title |-> <<>>, prose |-> Null,
    effects |-> Boon, isArray |-> TRUE, choices |-> <<choiceA>>]}

NoObject == [page_id |-> Null, title |-> <<>>, prose |-> Null,
             effects |-> NoEffects, isArray |-> FALSE, choices |-> <<>>]

\* what callLLM resolves to: null, text that holds no JSON, or text that
\* holds the JSON of an object
RawReplies ==
  {[kind |-> "null", obj |-> NoObject], [kind |-> "prose", obj |-> NoObject]}
  \cup {[kind |-> "json", obj |-> o] : o \in LlmObjects}

\* extractJSON, books.js 7-21: the object, or null (ok FALSE)
extractJSON(raw) ==
  IF raw.kind = "json" THEN [ok |-> TRUE, obj |-> raw.obj]
  ELSE [ok |-> FALSE, obj |-> NoObject]

\* variant: whatever parses is taken for a page
PageRejectedUnparsed(x) == ~x.ok

\* books.js 210: !obj || !obj.page_id || !obj.prose
PageRejected(x) == ~x.ok \/ x.obj.page_id = Null \/ x.obj.prose = Null

\* what callLLM resolved to at books.js 207: nothing that parses, the JSON
\* of an object without page_id or prose, or the JSON of a page, told by
\* its prose
ReplyClass(raw) ==
  IF raw.kind # "json" THEN "none"
  ELSE IF raw.obj.page_id = Null \/ raw.obj.prose = Null THEN "incomplete"
  ELSE raw.obj.prose

EmptyPages == [p \in {} |-> NoObject]

\* variant: the arrived page is not put under its id
StorePageSkipped(pages, page) == pages

\* variant: a page already stored under the id is kept
StorePageKeepsFirst(pages, page) ==
  [q \in DOMAIN pages \cup {page.page_id} |->
     IF q \in DOMAIN pages THEN pages[q] ELSE page]

\* s.pages[obj.page_id] = obj, books.js 221
StorePage(pages, page) ==
  [q \in DOMAIN pages \cup {page.page_id} |->
     IF q = page.page_id THEN page ELSE pages[q]]

\* variant: the choices are stored as they arrived
NormalizePageUntruncated(obj, s, book) ==
  [page_id |-> obj.page_id,
   title |-> IF obj.title # <<>> THEN obj.title
             ELSE <<"Leaf", Cardinality(DOMAIN s.pages) + 1>>,
   prose |-> obj.prose,
   effects |-> obj.effects,
   choices |-> IF obj.isArray THEN obj.choices ELSE <<>>,
   forBook |-> book]

\* the normalised object, books.js 215-217; forBook records the book of the
\* session that requested the page
NormalizePage(obj, s, book) ==
  [page_id |-> obj.page_id,
   title |-> IF obj.title # <<>> THEN obj.title
             ELSE <<"Leaf", Cardinality(DOMAIN s.pages) + 1>>,
   prose |-> obj.prose,
   effects |-> obj.effects,
   choices |-> IF obj.isArray
               THEN SubSeq(obj.choices, 1, Min(Len(obj.choices), MaxChoices))
               ELSE <<>>,
   forBook |-> book]

\* stableSeed, books.js 23-26
stableSeed(pid, bookId) ==
  <<IF pid # Null THEN pid ELSE "p", ":",
    IF bookId # NoId THEN bookId ELSE <<"b">>>>

\* variant: the seed ignores the book
SessionSeedless(pid, bookId) ==
  [active |-> TRUE, bookId |-> bookId, title |-> Items(bookId).name,
   seed |-> stableSeed(pid, NoId), pages |-> EmptyPages, current |-> Null,
   path |-> <<>>, completed |-> 0, stored |-> 0]

\* the object literal of _ensureSession, books.js 181-192 (the timestamps
\* are left out); stored counts the pages that arrived and completed the
\* choice-driven ones among them
NewSession(pid, bookId) ==
  [active |-> TRUE, bookId |-> bookId, title |-> Items(bookId).name,
   seed |-> stableSeed(pid, bookId), pages |-> EmptyPages, current |-> Null,
   path |-> <<>>, completed |-> 0, stored |-> 0]

\* _findBookId, books.js 163-175: the first held book whose id or name
\* matches, NoId when there is none
BookMatches(id, low) ==
  /\ isBookItem(id)
  /\ \/ ToLower(id) = low
     \/ ToLower(Items(id).name) = low
     \/ Includes(ToLower(Items(id).name), low)

FindBookId(token) ==
  IF token = <<>> THEN NoId
  ELSE LET hits == {i \in 1..Len(Inventory) :
                      BookMatches(Inventory[i], ToLower(token))}
       IN IF hits = {} THEN NoId
          ELSE Inventory[CHOOSE i \in hits : \A j \in hits : i <= j]

\* the test of Array.prototype.find, books.js 82-84
ChoiceMatches(c, low) ==
  \/ (c.id # <<>> /\ ToLower(c.id) = low)
  \/ (c.id # <<>> /\ StartsWith(ToLower(c.id), low))
  \/ (c.label # <<>> /\ StartsWith(ToLower(c.label), low))

\* variant: a token that matches nothing falls back to the first choice
ResolveChoiceOrFirst(choices, token) ==
  LET idx == ParseInt(token)
      hits == {i \in 1..Len(choices) : ChoiceMatches(choices[i], ToLower(token))}
  IN IF idx # NaN /\ idx >= 1 /\ idx <= Len(choices) THEN idx
     ELSE IF hits = {} THEN 1
     ELSE CHOOSE i \in hits : \A j \in hits : i <= j

\* choice resolution, books.js 73-87: the 1-based position of the choice
\* taken, 0 when none is found
ResolveChoice(choices, token) ==
  LET idx == ParseInt(token)
      hits == {i \in 1..Len(choices) : ChoiceMatches(choices[i], ToLower(token))}
  IN IF idx # NaN /\ idx >= 1 /\ idx <= Len(choices) THEN idx
     ELSE IF hits = {} THEN 0
     ELSE CHOOSE i \in hits : \A j \in hits : i <= j

\* variant: the id stands in the path also when it is empty
PathEntryIdOnly(choices, i) == choices[i].id

\* choice.id || String(page.choices.indexOf(choice)), books.js 93
PathEntry(choices, i) ==
  IF choices[i].id # <<>> THEN choices[i].id ELSE <<DigitChar(i - 1)>>

\* ------------------------------------------------------------ session state
NoSnapshot == [pages |-> EmptyPages, path |-> <<>>, current |-> Null,
               stored |-> 0]
NoRender == <<>>

\* _promptPage, books.js 277-312: what the prompt of a generation call says
\* of the player's stats and of the path
Prompt(path, st) == [path |-> path, stats |-> st]

\* pages, path and current of a session object, and how many pages arrived
Snapshot(s) == [pages |-> s.pages, path |-> s.path, current |-> s.current,
                stored |-> s.stored]

\* one step of the books engine: the command or completion, the token typed,
\* the book found, the generation call and session object concerned, whether
\* a session object was created, the number of generation calls issued, what
\* _renderCurrent showed, the position of the choice taken, the message put
\* out, and for a failed generation the session before its open or choose
\* and what the reply was, for a close the session before it, for a close
\* or resume whether the session was active, and for an open or choose what
\* the prompt of its call says
BEv(op, token, book, g, s, created, issued, render, chosen, msg, before) ==
  [op |-> op, token |-> token, book |-> book, g |-> g, s |-> s,
   created |-> created, issued |-> issued, render |-> render,
   chosen |-> chosen, msg |-> msg, before |-> before, reply |-> "none",
   wasActive |-> FALSE, prompt |-> Prompt(<<>>, NoEffects),
   pub |-> [topic |-> NoId, path |-> <<>>, page_id |-> Null,
            current |-> Null]]


\* variant: nothing is shown
RenderNothing(heap, cur) == NoRender

\* what _publishBookEvent('book_page', ...) and _publishBookSnapshot,
\* books.js 325-351, hand to aterna.publishEvent at the end of
\* _generatePage: the topic and the path (and, in the snapshot, current)
\* are those of state.bookSession when they run, page_id is the argument
_publishBookEvent(heap, cur, page_id) ==
  [topic |-> heap[cur].bookId, path |-> heap[cur].path,
   page_id |-> page_id, current |-> heap[cur].current]

\* _renderCurrent, books.js 231-244: the book and page shown, if any
RenderCurrent(heap, cur) ==
  IF cur = 0 \/ heap[cur].current = Null THEN NoRender
  ELSE <<heap[cur].bookId, heap[cur].current>>

\* books.js 180: _ensureSession makes a new object
NeedsNewSession(id) ==
  bookSession = 0 \/ sessions[bookSession].bookId # id

\* _ensureSession, books.js 177-198: the session objects after the call
SessionsAfterEnsure(id) ==
  IF NeedsNewSession(id)
  THEN Append(sessions, NewSession(playerId, id))
  ELSE [sessions EXCEPT ![bookSession].active = TRUE]

\* state.bookSession after _ensureSession
BookSessionAfterEnsure(id) ==
  IF NeedsNewSession(id) THEN Len(sessions) + 1 ELSE bookSession

\* variant: open always starts at page 1
OpenAlwaysGenerates(s) == FALSE

\* books.js 58: the session has a current page, open shows it
OpenResumes(s) == s.current # Null

\* the call of _generatePage up to its await, books.js 200-207: the session
\* object it holds on to, the path and choice that go into the prompt
NewGen(s, book, path, chosen, byChoice, before) ==
  [s |-> s, book |-> book, path |-> path, chosen |-> chosen,
   byChoice |-> byChoice, phase |-> "awaiting", before |-> before]

\* variant: the page goes to whatever session is open when it arrives
TargetIsOpenSession(g) == bookSession

\* const s = this.g.state.bookSession, books.js 201, read before the await
TargetSession(g) == gens[g].s

\* books.js 69-87: the choose command goes ahead
ChooseProceeds(s, token) ==
  /\ s.current # Null
  /\ Len(s.pages[s.current].choices) > 0
  /\ ResolveChoice(s.pages[s.current].choices, token) # 0

\* ------------------------------------------------------------ book actions
\* validateAndStart, game.js 204-218, and the creation that follows up to
\* startGame, game.js 340-344
StartOnline(pid) ==
  /\ UNCHANGED <<aiVars, legacyVars, restVars>>
  /\ ~started
  /\ started' = TRUE
  /\ aiEnabled' = TRUE
  /\ playerId' = pid
  /\ bev' = BEv("start", <<>>, NoId, 0, 0, FALSE, 0, NoRender, 0, "none",
                NoSnapshot)
  /\ UNCHANGED <<sessions, bookSession, gens, stats>>

\* startOffline, game.js 224-232, and the creation that follows
StartOffline(pid) ==
  /\ UNCHANGED <<aiVars, legacyVars, restVars>>
  /\ ~started
  /\ started' = TRUE
  /\ aiEnabled' = FALSE
  /\ playerId' = pid
  /\ bev' = BEv("start", <<>>, NoId, 0, 0, FALSE, 0, NoRender, 0, "none",
                NoSnapshot)
  /\ UNCHANGED <<sessions, bookSession, gens, stats>>

\* open(token), books.js 52-63, with _ensureSession and the synchronous part
\* of _generatePage, in a run of at most ns session objects and ng
\* generation calls
Open(token, ns, ng) ==
  /\ UNCHANGED <<aiVars, legacyVars, restVars>>
  /\ started
  /\ LET id == FindBookId(token)
     IN IF id = NoId
        THEN /\ bev' = BEv("open", token, NoId, 0, 0, FALSE, 0, NoRender, 0,
                           "Name the book clearly.", NoSnapshot)
             /\ UNCHANGED <<sessions, bookSession, gens>>
        ELSE LET fresh == NeedsNewSession(id)
                 heap == SessionsAfterEnsure(id)
                 cur == BookSessionAfterEnsure(id)
             IN /\ fresh => Len(sessions) < ns
                /\ sessions' = heap
                /\ bookSession' = cur
                /\ IF ~aiEnabled
                   THEN /\ bev' = BEv("open", token, id, 0, cur, fresh, 0,
                                      NoRender, 0, "This book remains blank",
                                      NoSnapshot)
                        /\ UNCHANGED gens
                   ELSE IF OpenResumes(heap[cur])
                   THEN /\ bev' = BEv("open", token, id, 0, cur, fresh, 0,
                                      RenderCurrent(heap, cur), 0, "none",
                                      NoSnapshot)
                        /\ UNCHANGED gens
                   ELSE /\ Len(gens) < ng
                        /\ gens' = Append(gens, NewGen(cur, id, <<>>,
                                                       [id |-> <<>>,
                                                        label |-> <<>>],
                                                       FALSE,
                                                       Snapshot(heap[cur])))
                        /\ bev' = [BEv("open", token, id, Len(gens) + 1, cur,
                                       fresh, 1, NoRender, 0, "none",
                                       NoSnapshot)
                                     EXCEPT !.prompt = Prompt(<<>>, stats)]
  /\ UNCHANGED <<stats, aiEnabled, started, playerId>>

\* choose(token), books.js 67-95, up to the await inside _generatePage, in a
\* run of at most ng generation calls
Choose(token, ng) ==
  /\ UNCHANGED <<aiVars, legacyVars, restVars>>
  /\ started
  /\ IF bookSession = 0
     THEN /\ bev' = BEv("choose", token, NoId, 0, 0, FALSE, 0, NoRender, 0,
                        "No book is open.", NoSnapshot)
          /\ UNCHANGED <<sessions, gens, stats>>
     ELSE LET s == sessions[bookSession]
          IN IF ~ChooseProceeds(s, token)
             THEN /\ bev' = BEv("choose", token, s.bookId, 0, bookSession,
                                FALSE, 0, NoRender, 0,
                                IF s.current = Null THEN "No book is open."
                                ELSE IF Len(s.pages[s.current].choices) = 0
                                THEN "This page offers no choice."
                                ELSE "Choice not found.", NoSnapshot)
                  /\ UNCHANGED <<sessions, gens, stats>>
             ELSE LET choices == s.pages[s.current].choices
                      i == ResolveChoice(choices, token)
                      path == Append(s.path, PathEntry(choices, i))
                  IN /\ Len(gens) < ng
                     /\ stats' = ApplyEffects(stats, choices[i].effects)
                     /\ sessions' = [sessions EXCEPT ![bookSession].path = path]
                     /\ gens' = Append(gens,
                                  NewGen(bookSession, s.bookId, path,
                                         [id |-> choices[i].id,
                                          label |-> choices[i].label],
                                         TRUE, Snapshot(s)))
                     /\ bev' = [BEv("choose", token, s.bookId, Len(gens) + 1,
                                    bookSession, FALSE, 1, NoRender, i,
                                    "none", NoSnapshot)
                                  EXCEPT !.prompt = Prompt(path, stats')]
  /\ UNCHANGED <<bookSession, aiEnabled, started, playerId>>

\* callLLM resolves and _generatePage runs to its end, books.js 207-229
PageArrives(g, raw) ==
  /\ UNCHANGED <<aiVars, legacyVars, restVars>>
  /\ g \in 1..Len(gens)
  /\ gens[g].phase = "awaiting"
  /\ LET x == extractJSON(raw)
         t == TargetSession(g)
     IN IF PageRejected(x)
        THEN /\ gens' = [gens EXCEPT ![g].phase = "failed",
                                     ![g].before = NoSnapshot]
             /\ bev' = [BEv("fail", <<>>, sessions[t].bookId, g, t, FALSE, 0,
                            NoRender, 0, "The page refuses to resolve.",
                            gens[g].before)
                          EXCEPT !.reply = ReplyClass(raw)]
             /\ UNCHANGED <<sessions, stats>>
        ELSE LET page == NormalizePage(x.obj, sessions[t], gens[g].book)
                 heap == [sessions EXCEPT
                            ![t].pages = StorePage(@, page),
                            ![t].current = page.page_id,
                            ![t].completed =
                               IF gens[g].byChoice THEN @ + 1 ELSE @,
                            ![t].stored = @ + 1]
             IN /\ stats' = ApplyEffects(stats, page.effects)
                /\ sessions' = heap
                /\ gens' = [gens EXCEPT ![g].phase = "done",
                                        ![g].before = NoSnapshot]
                /\ bev' = [BEv("arrive", <<>>, sessions[t].bookId, g, t,
                               FALSE, 0, RenderCurrent(heap, bookSession), 0,
                               "none", NoSnapshot)
                             EXCEPT !.reply = ReplyClass(raw),
                                    !.pub = _publishBookEvent(
                                              heap, bookSession,
                                              page.page_id)]
  /\ UNCHANGED <<bookSession, aiEnabled, started, playerId>>

\* close(), books.js 125-133
Close ==
  /\ UNCHANGED <<aiVars, legacyVars, restVars>>
  /\ started
  /\ IF bookSession # 0
     THEN /\ sessions' = [sessions EXCEPT ![bookSession].active = FALSE]
          /\ bev' = [BEv("close", <<>>, sessions[bookSession].bookId, 0,
                         bookSession, FALSE, 0, NoRender, 0, "You close",
                         Snapshot(sessions[bookSession]))
                       EXCEPT !.wasActive = sessions[bookSession].active]
     ELSE /\ bev' = BEv("close", <<>>, NoId, 0, 0, FALSE, 0, NoRender, 0,
                        "No book is open.", NoSnapshot)
          /\ UNCHANGED sessions
  /\ UNCHANGED <<bookSession, gens, stats, aiEnabled, started, playerId>>

\* resume(), books.js 135-140
Resume ==
  /\ UNCHANGED <<aiVars, legacyVars, restVars>>
  /\ started
  /\ IF bookSession # 0
     THEN /\ sessions' = [sessions EXCEPT ![bookSession].active = TRUE]
          /\ bev' = [BEv("resume", <<>>, sessions[bookSession].bookId, 0,
                         bookSession, FALSE, 0,
                         RenderCurrent(sessions, bookSession), 0, "none",
                         NoSnapshot)
                       EXCEPT !.wasActive = sessions[bookSession].active]
     ELSE /\ bev' = BEv("resume", <<>>, NoId, 0, 0, FALSE, 0, NoRender, 0,
                        "No book to resume.", NoSnapshot)
          /\ UNCHANGED sessions
  /\ UNCHANGED <<bookSession, gens, stats, aiEnabled, started, playerId>>

\* the steps of the books engine in a run of at most ns session objects and
\* ng generation calls, with the given players, tokens and replies: commands
\* arrive in any order and the outstanding generation calls complete in any
\* order
BookStep(ns, ng, pids, opens, chooses, replies) ==
  \/ \E pid \in pids : StartOnline(pid)
  \/ \E pid \in pids : StartOffline(pid)
  \/ \E token \in opens : Open(token, ns, ng)
  \/ \E token \in chooses : Choose(token, ng)
  \/ \E g \in 1..ng, raw \in replies : PageArrives(g, raw)
  \/ Close
  \/ Resume

BookNext ==
  BookStep(MaxSessions, MaxGens, PlayerIds, OpenTokens, ChooseTokens,
           RawReplies)

BookSpec == Init /\ [][BookNext]_vars

\* longer runs of one player who names the books by their ids and picks
\* choices by number, for the claims about reopening a book
ReopenNext ==
  BookStep(MaxSessions + ExtraOpens, MaxGens + ExtraGens, {"u1"},
           {codex_paths, mirror_grimoire}, {<<"1">>, <<"7">>},
           {r \in RawReplies : r.kind = "null" \/ r.obj.title # <<>>})

ReopenSpec == Init /\ [][ReopenNext]_vars

\* a reply with more choices than a page keeps
LongPage ==
  [page_id |-> "p3", title |-> <<"Long">>, prose |-> "prose4",
   effects |-> NoEffects, isArray |-> TRUE,
   choices |-> <<choiceAb, choiceA, choiceNoId, choiceAb, choiceA,
                 choiceNoId, choiceAb>>]

\* replies for the claims about storing a page: none, a page with two
\* choices, a page under the same id whose choices are not an array, and
\* the page with seven choices
PageReplies ==
  {r \in RawReplies :
     r.kind = "null" \/ (r.kind = "json" /\ r.obj.page_id = "p1")}
  \cup {[kind |-> "json", obj |-> LongPage]}

\* one player who names the books by their ids and picks choices by number
PageNext ==
  BookStep(MaxSessions, MaxGens, {"u1"}, {codex_paths, mirror_grimoire},
           {<<"1">>, <<"7">>}, PageReplies)

PageSpec == Init /\ [][PageNext]_vars

\* ------------------------------------------------------------- book ask
\* variant: the question goes to the model whatever the session holds
AskWithoutPage(na) ==
  /\ UNCHANGED <<aiVars, legacyVars, fxVars, text, parsed, calls, room>>
  /\ started
  /\ askPending < na
  /\ askPending' = askPending + 1
  /\ bev' = BEv("ask", <<>>, NoId, 0, bookSession, FALSE, 1, NoRender, 0,
                "none", NoSnapshot)
  /\ UNCHANGED <<sessions, bookSession, gens, stats, aiEnabled, started,
                 playerId>>

\* ask(q), books.js 97-106, up to the await of callLLM, in a run of at most
\* na questions awaiting their answer
Ask(na) ==
  /\ UNCHANGED <<aiVars, legacyVars, fxVars, text, parsed, calls, room>>
  /\ started
  /\ IF bookSession = 0
     THEN /\ bev' = BEv("ask", <<>>, NoId, 0, 0, FALSE, 0, NoRender, 0,
                        "No book is open.", NoSnapshot)
          /\ UNCHANGED askPending
     ELSE IF sessions[bookSession].current = Null
     THEN /\ bev' = BEv("ask", <<>>, sessions[bookSession].bookId, 0,
                        bookSession, FALSE, 0, NoRender, 0,
                        "No book is open.", NoSnapshot)
          /\ UNCHANGED askPending
     ELSE IF ~aiEnabled
     THEN /\ bev' = BEv("ask", <<>>, sessions[bookSession].bookId, 0,
                        bookSession, FALSE, 0, NoRender, 0,
                        "The pages rustle but do not answer", NoSnapshot)
          /\ UNCHANGED askPending
     ELSE /\ askPending < na
          /\ askPending' = askPending + 1
          /\ bev' = BEv("ask", <<>>, sessions[bookSession].bookId, 0,
                        bookSession, FALSE, 1, NoRender, 0, "none",
                        NoSnapshot)
  /\ UNCHANGED <<sessions, bookSession, gens, stats, aiEnabled, started,
                 playerId>>

\* callLLM resolves with an answer, or with null after a failed call, and
\* ask runs to its end, books.js 104-105
AskAnswers(answer) ==
  /\ UNCHANGED <<aiVars, legacyVars, fxVars, text, parsed, calls, room>>
  /\ askPending > 0
  /\ askPending' = askPending - 1
  /\ bev' = BEv("answer", <<>>, NoId, 0, 0, FALSE, 0, NoRender, 0,
                IF answer = "null" THEN "none" ELSE answer, NoSnapshot)
  /\ UNCHANGED <<sessions, bookSession, gens, stats, aiEnabled, started,
                 playerId>>

\* one player who opens, chooses, closes and resumes and puts questions to
\* the book in between
AskNext ==
  \/ BookStep(MaxSessions, MaxGens, {"u1"}, {codex_paths, mirror_grimoire},
              {<<"1">>}, {r \in RawReplies : r.kind = "null" \/ r.obj.title # <<>>})
  \/ Ask(MaxAsks)
  \/ \E answer \in {"answer", "null"} : AskAnswers(answer)

AskSpec == Init /\ [][AskNext]_vars

\* ------------------------------------------------------- effects on stats
\* The player's numbers are held in thousandths, so that 0.3 is 300, hp 100
\* is 100000 and one insight is 1000.
Milli == 1000

\* variant: the value is taken as it is
clamp01Open(x) == x

\* utils.js 1: clamp01
clamp01(x) == Max(0, Min(Milli, x))

\* Math.floor
Floor(x) == (x \div Milli) * Milli

\* the values an effects object carries under a key: no such key, a number,
\* the string "=" followed by a number, another string, or an object with a
\* number under coherence
Absent == [kind |-> "absent", n |-> 0]
Num(n) == [kind |-> "number", n |-> n]
Assign(n) == [kind |-> "assign", n |-> n]
OtherString == [kind |-> "string", n |-> 0]
Nested(n) == [kind |-> "object", n |-> n]

\* the values of state.quantumState: the object with its coherence, a
\* number, or NaN
QNumber(x) == [kind |-> "number", n |-> x]

NoFx == [truth |-> Absent, quantum |-> Absent, shadow |-> Absent,
         insight |-> Absent, hp |-> Absent]

\* the effects objects of the runs: one key each, and two with several keys
EffectsObjects ==
  {[NoFx EXCEPT !.truth = v] :
     v \in {Num(5000), Num(0 - 300), Assign(300), Assign(1500), OtherString}}
  \cup {[NoFx EXCEPT !.quantum = v] :
          v \in {Num(100), Assign(400), Nested(200), Nested(0 - 5000)}}
  \cup {[NoFx EXCEPT !.shadow = v] : v \in {Num(250), Assign(700)}}
  \cup {[NoFx EXCEPT !.insight = v] :
          v \in {Num(2500), Num(0 - 5000), Assign(3000)}}
  \cup {[NoFx EXCEPT !.hp = v] :
          v \in {Num(0 - 1000000), Num(0 - 500), Num(20500), Assign(50000)}}
  \cup {[truth |-> Num(5000), quantum |-> Nested(700), shadow |-> Num(0 - 100),
         insight |-> Num(1000), hp |-> Num(0 - 30000)],
        [truth |-> Assign(0), quantum |-> Assign(400), shadow |-> OtherString,
         insight |-> Absent, hp |-> Num(0 - 1000000)]}

\* upd of books.js 250-256 on a field that holds a number
upd(cur, val) ==
  IF val.kind = "number" THEN clamp01(cur + val.n)
  ELSE IF val.kind = "assign" THEN clamp01(val.n)
  ELSE cur

\* upd of books.js 250-256 on quantumState: an object plus a number is a
\* string, which clamp01 turns into NaN
updQuantumState(q, val) ==
  IF val.kind = "number"
  THEN IF q.kind = "number" THEN QNumber(clamp01(q.n + val.n)) ELSE [kind |-> "NaN", n |-> 0]
  ELSE IF val.kind = "assign" THEN QNumber(clamp01(val.n))
  ELSE q

\* books.js 259-261 writes the coherence of a quantumState that is no
\* object: a TypeError in module code
CoherenceThrows(q, val) == val.kind = "object" /\ q.kind # "object"

\* books.js 259-261
AddCoherence(q, val) ==
  IF val.kind = "object" /\ q.kind = "object"
  THEN [kind |-> "object", n |-> clamp01(q.n + val.n)]
  ELSE q

\* _applyEffects, books.js 246-275, on the five stats: the state it leaves
\* and whether it threw before reaching shadow, insight and hp
_applyEffects(s, effects) ==
  LET s1 == [s EXCEPT !.truthDensity = upd(@, effects.truth)]
      s2 == [s1 EXCEPT !.quantumState = updQuantumState(@, effects.quantum)]
  IN IF CoherenceThrows(s2.quantumState, effects.quantum)
     THEN [s |-> s2, threw |-> TRUE]
     ELSE [s |-> [s2 EXCEPT
                    !.quantumState = AddCoherence(@, effects.quantum),
                    !.shadowIntegration = upd(@, effects.shadow),
                    !.insight = IF effects.insight.kind = "number"
                                THEN @ + Floor(effects.insight.n) ELSE @,
                    !.hp = IF effects.hp.kind = "number"
                           THEN Max(0, Min(100 * Milli,
                                           @ + Floor(effects.hp.n)))
                           ELSE @],
           threw |-> FALSE]

\* one call of _applyEffects
ApplyFx(effects) ==
  /\ UNCHANGED <<aiVars, legacyVars, bookVars, askPending, text, parsed, calls,
               room>>
  /\ applied < MaxApplies
  /\ applied' = applied + 1
  /\ player' = _applyEffects(player, effects).s
  /\ fxev' = [op |-> "effects", effects |-> effects, n |-> 0,
              threw |-> _applyEffects(player, effects).threw,
              before |-> player]

\* grantInsight(n), game.js 928-932
grantInsight(n) ==
  /\ UNCHANGED <<aiVars, legacyVars, bookVars, askPending, text, parsed, calls,
               room>>
  /\ applied < MaxApplies
  /\ applied' = applied + 1
  /\ player' = [player EXCEPT !.insight = @ + Max(0, Floor(n))]
  /\ fxev' = [op |-> "grant", effects |-> NoFx, n |-> n, threw |-> FALSE,
              before |-> player]

\* spendInsight(n), game.js 933-938
spendInsight(n) ==
  /\ UNCHANGED <<aiVars, legacyVars, bookVars, askPending, text, parsed, calls,
               room>>
  /\ applied < MaxApplies
  /\ applied' = applied + 1
  /\ player' = IF player.insight < Max(0, Floor(n)) THEN player
               ELSE [player EXCEPT !.insight = @ - Max(0, Floor(n))]
  /\ fxev' = [op |-> "spend", effects |-> NoFx, n |-> n, threw |-> FALSE,
              before |-> player]

EffectsNext ==
  \/ \E effects \in EffectsObjects : ApplyFx(effects)
  \/ \E n \in {2500, 3000} : grantInsight(n)
  \/ \E n \in {2500, 3000} : spendInsight(n)

EffectsSpec == Init /\ [][EffectsNext]_vars

\* ------------------------------------------------- extractJSON on a text
\* A text is a sequence of tokens: the braces "{" and "}", a member "k:1" of
\* an object, a word "x" of prose, white space " ", the code fence, the
\* markers [JSON] and [/JSON], and the two marker texts that the expression
\* of books.js 16 spells out.
Fence == "fence"
OpenMark == "[JSON]"
CloseMark == "[/JSON]"
DisplayOpen == "$begin:math:display$JSON$end:math:display$"
DisplayClose == "$begin:math:display$/JSON$end:math:display$"

Alphabet ==
  {"{", "}", "k:1", "x", " ", Fence, OpenMark, CloseMark, DisplayOpen,
   DisplayClose}

Texts == UNION {[1..n -> Alphabet] : n \in 0..MaxLen}

NoValue == [ok |-> FALSE, value |-> <<>>]

\* String.prototype.trim
RECURSIVE TrimStart(_)
TrimStart(t) ==
  IF t # <<>> /\ Head(t) = " " THEN TrimStart(Tail(t)) ELSE t

RECURSIVE TrimEnd(_)
TrimEnd(t) ==
  IF t # <<>> /\ t[Len(t)] = " "
  THEN TrimEnd(SubSeq(t, 1, Len(t) - 1)) ELSE t

Trim(t) == TrimEnd(TrimStart(t))

\* JSON.parse: the number 1 and the objects {}, {k:1} and {p:"..."} parse,
\* with white space around the tokens; everything else throws (ok FALSE).
\* The token "p:q" is the key p with the quote that opens its string, "q"
\* is the closing quote, and the string between them is any tokens but "q".
\* The value is the text without the white space outside strings.
JSONParse(t) ==
  LET u == Trim(t)
      inner == IF Len(u) >= 2 THEN Trim(SubSeq(u, 2, Len(u) - 1)) ELSE <<>>
  IN IF u = <<"1">> THEN [ok |-> TRUE, value |-> u]
     ELSE IF Len(u) >= 2 /\ u[1] = "{" /\ u[Len(u)] = "}"
             /\ \/ inner = <<>>
                \/ inner = <<"k:1">>
                \/ /\ Len(inner) >= 2
                   /\ inner[1] = "p:q"
                   /\ inner[Len(inner)] = "q"
                   /\ \A i \in 2..(Len(inner) - 1) : inner[i] # "q"
     THEN [ok |-> TRUE, value |-> <<"{">> \o inner \o <<"}">>]
     ELSE NoValue

\* String.prototype.indexOf from a position, 0 when there is none
IndexOf(t, c, from) ==
  LET S == {i \in from..Len(t) : t[i] = c}
  IN IF S = {} THEN 0 ELSE CHOOSE i \in S : \A j \in S : i <= j

\* String.prototype.lastIndexOf, 0 when there is none
LastIndexOf(t, c) ==
  LET S == {i \in 1..Len(t) : t[i] = c}
  IN IF S = {} THEN 0 ELSE CHOOSE i \in S : \A j \in S : i >= j

\* the first match of  open ([\s\S]*?) close  in t and its group
MatchPair(t, open, close) ==
  LET i == IndexOf(t, open, 1)
      j == IF i = 0 THEN 0 ELSE IndexOf(t, close, i + 1)
  IN IF j = 0 THEN [found |-> FALSE, group |-> <<>>]
     ELSE [found |-> TRUE, group |-> SubSeq(t, i + 1, j - 1)]

\* books.js 13-14: the inside of the first fenced block
ParseFenced(t) ==
  LET m1 == MatchPair(t, Fence, Fence)
  IN IF m1.found THEN JSONParse(m1.group) ELSE NoValue

\* books.js 16: the inside of the first pair of the marker texts of that
\* expression
ParseMarked(t) ==
  LET m2 == MatchPair(t, DisplayOpen, DisplayClose)
  IN IF m2.found THEN JSONParse(m2.group) ELSE NoValue

\* books.js 18-19: from the first { to the last }
ParseBraces(t) ==
  LET s == IndexOf(t, "{", 1)
      e == LastIndexOf(t, "}")
  IN IF s >= 1 /\ e > s THEN JSONParse(SubSeq(t, s, e)) ELSE NoValue

\* extractJSON, books.js 7-21, on a text
extractJSONText(txt) ==
  LET t == Trim(txt)
  IN IF txt = <<>> THEN NoValue
     ELSE IF JSONParse(t).ok THEN JSONParse(t)
     ELSE IF ParseFenced(t).ok THEN ParseFenced(t)
     ELSE IF ParseMarked(t).ok THEN ParseMarked(t)
     ELSE IF ParseBraces(t).ok THEN ParseBraces(t)
     ELSE NoValue

\* one call of extractJSON
Extract(txt) ==
  /\ UNCHANGED <<aiVars, legacyVars, bookVars, askPending, fxVars, calls, room>>
  /\ ~parsed.called
  /\ text' = txt
  /\ parsed' = [called |-> TRUE, ok |-> extractJSONText(txt).ok,
                value |-> extractJSONText(txt).value]

\* extractJSON is called once, on any text
ParseNext ==
  /\ ~parsed.called
  /\ \E txt \in Texts : Extract(txt)

ParseSpec == Init /\ [][ParseNext]_vars

\* objects of the Page shape, each given by what stands between its braces:
\* no member, a number member, and a string member whose text is a word, a
\* brace, a code fence, or the number 1 between two code fences
PageObjects ==
  {<<>>, <<"k:1">>, <<"p:q", "x", "q">>, <<"p:q", "{", "q">>,
   <<"p:q", Fence, "q">>, <<"p:q", Fence, "1", Fence, "q">>}

\* JSON.stringify of such an object: no white space
JSONStringify(o) == <<"{">> \o o \o <<"}">>

\* the texts a model may reply with for the object: its JSON alone, its JSON
\* in a fenced block, and its JSON with prose without braces before or
\* after it
Wrappings(o) ==
  LET Gaps == {<<>>, <<" ">>}
      Prose == {<<>>, <<"x">>, <<"x", " ">>, <<" ", "x">>, <<"x", " ", "x">>}
  IN {JSONStringify(o)}
     \cup {<<Fence>> \o g \o JSONStringify(o) \o h \o <<Fence>> :
             g \in Gaps, h \in Gaps}
     \cup {b \o JSONStringify(o) \o a : b \in Prose, a \in Prose}

\* extractJSON is called once, on a reply that holds the JSON of a page
RoundTripNext ==
  /\ ~parsed.called
  /\ \E o \in PageObjects : \E txt \in Wrappings(o) : Extract(txt)

RoundTripSpec == Init /\ [][RoundTripNext]_vars

\* the steps of the client and its timers in a run with at most n invocations
ClientStep(n) ==
  \/ \E t \in 1..n, c \in Categories : Invoke(t, c)
  \/ \E t \in Tasks : ThrottleDone(t)
  \/ \E t \in Tasks : HandoffFire(t)
  \/ \E t \in Tasks, r \in Responses : Respond(t, r)
  \/ AdvanceToTimer

Next ==
  \/ ClientStep(NumTasks)
  \/ \E k \in Keys : SetApiKey(k)
  \/ \E d \in {1000} : Tick(d)

Spec == Init /\ [][Next]_vars

\* runs with more concurrent callers, for the claims about queue order
WideNext ==
  \/ ClientStep(NumTasks + ExtraTasks)
  \/ \E k \in Keys : SetApiKey(k)
  \/ \E d \in {1000} : Tick(d)

WideSpec == Init /\ [][WideNext]_vars

\* runs for the progress claims: the player enters one key and the clock
\* moves from timer deadline to timer deadline
LiveNext ==
  \/ ClientStep(NumTasks)
  \/ SetApiKey("sk-1")

\* Scheduling of the event loop: a due timer callback runs, a fetch settles
\* (every task body terminates), and the clock reaches a pending deadline.
Fairness ==
  /\ \A t \in Tasks : WF_vars(ThrottleDone(t))
  /\ \A t \in Tasks : WF_vars(HandoffFire(t))
  /\ \A t \in Tasks : WF_vars(\E r \in Responses : Respond(t, r))
  /\ WF_vars(AdvanceToTimer)

FairSpec == Init /\ [][LiveNext]_vars /\ Fairness

\* ------------------------------------------------------------------ claims
HttpErrors == {401, 429, 500}
Started(t) == pc[t] \in {"running", "done"} /\ sent[t] > 0
InQueue(t) == \E i \in 1..Len(_requestQueue) : _requestQueue[i] = t
SubmitPos(t) == CHOOSE i \in 1..Len(submitSeq) : submitSeq[i] = t
Submitted(t) == \E i \in 1..Len(submitSeq) : submitSeq[i] = t

\* C1: at most one task body (network call) is executing at any time, for
\* any interleaving of callLLM and generateImage invocations.
SingleFlight == Cardinality({t \in Tasks : pc[t] = "running"}) <= 1

\* C1 witness: a second invocation arrived while a task body was executing.
SingleFlightWitness ==
  \E t, u \in Tasks : pc[t] = "running" /\ pc[u] = "queued"

\* C2: network calls start in the order the tasks were submitted to
\* executeWithQueue: when a task starts, every task submitted before it has
\* already started.
FifoStartOrder ==
  ev.op = "start" =>
    \A u \in Tasks :
      (Submitted(u) /\ SubmitPos(u) < SubmitPos(ev.t)) => Started(u)

\* C3: after a 429 no network call starts before the backoff deadline
\* blockedUntil (receipt time + retry hint, or the fallback window).
NoStartBeforeBlockedUntil == ev.op = "start" => now >= blockedUntil

\* C4: the backoff after a 429 also delays the next call of the other
\* category (text after an image 429, image after a text 429).
BackoffSharedAcrossCategories ==
  (ev.op = "start" /\ blockedCat \notin {"none", ev.cat}) => now >= blockedUntil

\* C6: a 401 response clears _cachedApiKey and _cachedAuthHeader before the
\* call resolves, the call resolves as failed, and no invocation sends more
\* than one network request (the failed request is not re-sent).
AuthFailureClearsCache ==
  /\ \A t \in Tasks : sent[t] <= 1
  /\ (ev.op = "respond" /\ ev.status = 401) =>
        /\ _cachedApiKey = NoKey
        /\ _cachedAuthHeader = NoHeader
        /\ pc[ev.t] = "done"
        /\ result[ev.t] = "null"

\* C6 witness: a call that sent a cached header has just received a 401.
AuthFailureWitness ==
  /\ ev.op = "respond" /\ ev.status = 401
  /\ authHeader[ev.t] = Bearer(apiKey)

\* C7: every network call that starts after a 401 was processed sends a
\* header resolved after that 401, also when the task was already waiting
\* in the throttle delay or the queue.
FreshHeaderAfterAuthFailure == ev.op = "start" => ~ev.stale

\* C8: an HTTP error status never rejects the promise: it resolves with the
\* failure value, _requestInFlight is released and a queued task is handed
\* to the timer that runs it.
HttpErrorResolvesAndReleases ==
  /\ \A t \in Tasks : result[t] # "rejected"
  /\ (ev.op = "respond" /\ ev.status \in HttpErrors) =>
        /\ result[ev.t] = "null"
        /\ ~_requestInFlight
        /\ \A u \in Tasks :
             pc[u] = "queued" =>
               InQueue(u) /\ \E v \in Tasks : pc[v] = "handoff"

\* C8 witness: an HTTP 500 was answered while another task was queued, and
\* that task is now handed to the timer.
HttpErrorWitness ==
  /\ ev.op = "respond" /\ ev.status = 500
  /\ \E v \in Tasks : pc[v] = "handoff" /\ wake[v] = now + HandoffDelay

\* the floor of a category's minimum interval, ai.js 171 and 272
BaseInterval(c) == IF c = "text" THEN LlmBaseInterval ELSE ImageBaseInterval

\* C10: two consecutive network calls of one category start at least that
\* category's minimum interval apart.  The interval is never below the
\* category's floor, so the starts are at least the floor apart.
MinIntervalBetweenStarts ==
  (ev.op = "start" /\ ev.prev # 0) => now - ev.prev >= BaseInterval(ev.cat)

\* C5: every invocation made with a credential runs its task body exactly
\* once, is never dropped while throttled or queued, and its promise
\* eventually settles.
ExactlyOnceAndSettles ==
  /\ [](\A t \in Tasks :
         /\ sent[t] <= 1
         /\ (pc[t] = "done" /\ authHeader[t] # NoHeader) =>
              (sent[t] = 1 /\ result[t] # "pending"))
  /\ \A t \in Tasks : (pc[t] # "new") ~> (result[t] # "pending")

\* C5 witness: an invocation that waited in the queue and for the hand-off
\* timer has settled after one fetch.
ExactlyOnceWitness ==
  /\ ev.op = "respond"
  /\ \E i \in 1..Len(submitSeq) : i > 1 /\ submitSeq[i] = ev.t
  /\ sent[ev.t] = 1 /\ result[ev.t] # "pending"
  /\ \E u \in Tasks : u # ev.t /\ pc[u] = "done" /\ sent[u] = 1

\* C9: the chat-completions request is sent only when the Responses API
\* request raised a transport error or returned malformed output (no JSON,
\* or no text in a success response); a well-formed HTTP error response is
\* terminal and no second request follows it.
FallbackOnlyOnTransportOrMalformed ==
  \A i \in LegacyCalls :
    lsent[i] > 1 =>
      \/ lprimary[i].body \in {"neterr", "notjson"}
      \/ (lprimary[i].ok /\ lprimary[i].body = "empty")

\* ===================================================== books engine claims
SessionIds == 1..Len(sessions)

\* the generation calls of session object i that have not completed
Outstanding(i) ==
  {g \in 1..Len(gens) : gens[g].s = i /\ gens[g].phase = "awaiting"}

\* the current page's choices of session object i (none without a page)
CurrentChoices(i) ==
  IF sessions[i].current = Null THEN <<>>
  ELSE sessions[i].pages[sessions[i].current].choices

\* the rule by which a token matches a choice: 2 exact id, 3 id prefix,
\* 4 label prefix, 5 no match (1 is the numeric index)
RuleRank(c, low) ==
  IF c.id # <<>> /\ ToLower(c.id) = low THEN 2
  ELSE IF c.id # <<>> /\ StartsWith(ToLower(c.id), low) THEN 3
  ELSE IF c.label # <<>> /\ StartsWith(ToLower(c.label), low) THEN 4
  ELSE 5

\* the token read as a number is a position of the choice list
IsIndex(choices, token) ==
  ParseInt(token) # NaN /\ ParseInt(token) >= 1 /\ ParseInt(token) <= Len(choices)

\* C11: whenever no page generation of a session is outstanding, the length
\* of its path equals the number of choice-driven page transitions that
\* completed (a new page was stored and current advanced to it).
PathCountsCompletedTransitions ==
  \A i \in SessionIds :
    Outstanding(i) = {} => Len(sessions[i].path) = sessions[i].completed

\* C12: when a page generation fails and no page arrived in its session
\* since the open or choose that triggered it, pages, path and current of the
\* session are what they were before that open or choose, and the 'page
\* refuses to resolve' message is put out.
FailedGenerationRestoresSession ==
  (bev.op = "fail" /\ sessions[bev.s].stored = bev.before.stored) =>
    /\ Snapshot(sessions[bev.s]) = bev.before
    /\ bev.msg = "The page refuses to resolve."

\* C13: in every session object, current is unset or a key of pages.
CurrentIsStoredPage ==
  \A i \in SessionIds :
    sessions[i].current = Null
    \/ sessions[i].current \in DOMAIN sessions[i].pages

\* a page is current after an open, a page arrival, a choose, a failed
\* generation, a close and a resume
CurrentIsStoredPageWitness ==
  /\ bev.op = "resume"
  /\ bookSession # 0
  /\ sessions[bookSession].current # Null
  /\ sessions[bookSession].path # <<>>
  /\ \E g \in 1..Len(gens) :
       gens[g].s = bookSession /\ gens[g].phase = "failed"

\* C14: at most one page generation of a session is outstanding at a time (a
\* second open or choose while one is awaited is rejected or queued).
OneGenerationPerSession ==
  \A i \in SessionIds : Cardinality(Outstanding(i)) <= 1

OpenOfNewBookStartsSession ==
  [][(/\ bev'.op = "open"
      /\ bev'.book # NoId
      /\ aiEnabled
      /\ (bookSession = 0 \/ sessions[bookSession].bookId # bev'.book))
     => /\ sessions' =
             Append(sessions,
                    [active |-> TRUE, bookId |-> bev'.book,
                     title |-> Items(bev'.book).name,
                     seed |-> <<playerId, ":", bev'.book>>,
                     pages |-> EmptyPages, current |-> Null, path |-> <<>>,
                     completed |-> 0, stored |-> 0])
        /\ bookSession' = Len(sessions) + 1
        /\ Len(gens') = Len(gens) + 1
        /\ SubSeq(gens', 1, Len(gens)) = gens
        /\ gens'[Len(gens')].s = bookSession'
        /\ gens'[Len(gens')].path = <<>>
        /\ gens'[Len(gens')].phase = "awaiting"
        /\ stats' = stats]_vars

\* a second book was opened while the first one had its session
OpenOfNewBookWitness ==
  /\ bev.op = "open"
  /\ bev.created
  /\ bev.issued = 1
  /\ Len(sessions) = 2
  /\ Outstanding(bookSession) = {bev.g}

\* C17: a session made for a book lasts as long as the process: opening a
\* book whose session reached a page and a path, after another book was
\* open, resumes that session, with its pages, path and current page, and
\* neither makes a new session nor issues a generation call.
SessionSurvivesOtherBook ==
  (bev.op = "open" /\ bev.book # NoId) =>
    \A i \in SessionIds :
      (/\ sessions[i].bookId = bev.book
       /\ sessions[i].current # Null
       /\ sessions[i].path # <<>>)
        => (i = bookSession /\ ~bev.created /\ bev.issued = 0)

\* C18: every page a session object holds was requested for the book of
\* that session, also when another book is opened while the generation call
\* is in flight.
PagesBelongToSessionBook ==
  \A i \in SessionIds :
    \A p \in DOMAIN sessions[i].pages :
      sessions[i].pages[p].forBook = sessions[i].bookId

\* a page arrived for a book while the session of another book was open
PagesBelongWitness ==
  /\ bev.op = "arrive"
  /\ bookSession # bev.s
  /\ sessions[bookSession].bookId # sessions[bev.s].bookId
  /\ sessions[bev.s].current # Null

\* C19: choose with a token takes the choice at the token's numeric position
\* if there is one; otherwise no choice of the list matches the token by an
\* earlier rule (exact id, id prefix, label prefix) than the choice taken.
ChoiceTakenByPrecedence ==
  (/\ bev.op = "choose"
   /\ bev.token # <<>>
   /\ bev.s # 0
   /\ CurrentChoices(bev.s) # <<>>) =>
    LET choices == CurrentChoices(bev.s)
        low == ToLower(bev.token)
    IN IF IsIndex(choices, bev.token) THEN bev.chosen = ParseInt(bev.token)
       ELSE IF \A i \in 1..Len(choices) : RuleRank(choices[i], low) = 5
       THEN bev.chosen = 0
       ELSE /\ bev.chosen # 0
            /\ \A i \in 1..Len(choices) :
                 RuleRank(choices[bev.chosen], low) <= RuleRank(choices[i], low)

ChooseOnlyWhenActive ==
  [][(bev'.op = "choose" /\ bookSession # 0 /\ ~sessions[bookSession].active)
     => /\ stats' = stats
        /\ sessions' = sessions
        /\ gens' = gens
        /\ bev'.issued = 0]_vars

IncompletePageIsRejected ==
  [][bev'.reply = "incomplete"
     => /\ sessions' = sessions
        /\ stats' = stats
        /\ bookSession' = bookSession
        /\ bev'.op = "fail"
        /\ bev'.msg = "The page refuses to resolve."
        /\ gens'[bev'.g].phase = "failed"]_vars

\* an object without page_id or prose, carrying effects, came back for a
\* choose
IncompletePageWitness ==
  /\ bev.op = "fail"
  /\ bev.reply = "incomplete"
  /\ gens[bev.g].byChoice
  /\ sessions[bev.s].current # Null

\* C23: ask(question) never changes path, pages or current of a session,
\* whether its call comes back with an answer or fails, and it issues a call
\* only when the open session has a current page.
AskLeavesSessionAlone ==
  [][/\ bev'.op \in {"ask", "answer"}
          => /\ sessions' = sessions
             /\ bookSession' = bookSession
             /\ gens' = gens
             /\ stats' = stats
     /\ (bev'.op = "ask" /\ askPending' > askPending)
          => /\ bookSession # 0
             /\ sessions[bookSession].current # Null
     /\ (bev'.op = "ask" /\ askPending' = askPending) => bev'.issued = 0]_vars

\* a question about a page reached by a choice came back without an answer
AskWitness ==
  /\ bev.op = "answer"
  /\ bev.msg = "none"
  /\ askPending = 0
  /\ bookSession # 0
  /\ sessions[bookSession].current # Null
  /\ sessions[bookSession].path # <<>>

\* ========================================================== effects claims
\* C25: after any sequence of effects applications truthDensity and
\* shadowIntegration are within [0,1] and hp is a whole number within
\* [0,100].
StatsStayInRange ==
  /\ player.truthDensity >= 0 /\ player.truthDensity <= Milli
  /\ player.shadowIntegration >= 0 /\ player.shadowIntegration <= Milli
  /\ player.hp >= 0 /\ player.hp <= 100 * Milli
  /\ player.hp % Milli = 0

\* truth was raised again when it was 1 already, after hp had been taken to
\* 0 by a loss of 1000
StatsStayInRangeWitness ==
  /\ fxev.op = "effects"
  /\ fxev.effects.truth.kind = "number" /\ fxev.effects.truth.n > 0
  /\ fxev.before.truthDensity = Milli
  /\ player.truthDensity = Milli
  /\ player.hp = 0

\* C26: after applying any effects object quantumState still is the object
\* with its coherence field, and the coherence is a number within [0,1].
CoherenceStaysInRange ==
  /\ player.quantumState.kind = "object"
  /\ player.quantumState.n >= 0 /\ player.quantumState.n <= Milli

\* C27: insight is a whole number that is never negative.
InsightNeverNegative ==
  /\ player.insight >= 0
  /\ player.insight % Milli = 0

\* C28: for each of truth, shadow, insight and hp, the string "=" followed by
\* a number sets the field to that number, clamped to the range of the field
\* (insight has no upper end), instead of adding to it.
AssignSetsField ==
  (fxev.op = "effects" /\ ~fxev.threw) =>
    /\ fxev.effects.truth.kind = "assign" =>
         player.truthDensity = Max(0, Min(Milli, fxev.effects.truth.n))
    /\ fxev.effects.shadow.kind = "assign" =>
         player.shadowIntegration = Max(0, Min(Milli, fxev.effects.shadow.n))
    /\ fxev.effects.insight.kind = "assign" =>
         player.insight = Max(0, fxev.effects.insight.n)
    /\ fxev.effects.hp.kind = "assign" =>
         player.hp = Max(0, Min(100 * Milli, fxev.effects.hp.n))

\* ====================================================== extractJSON claims
\* the inside of the first [JSON] ... [/JSON] pair, parsed
ParseBracketed(t) ==
  LET m == MatchPair(t, OpenMark, CloseMark)
  IN IF m.found THEN JSONParse(m.group) ELSE NoValue

\* the first result of a list that is a successful parse, if any
FirstSuccess(results) ==
  LET S == {i \in 1..Len(results) : results[i].ok}
  IN IF S = {} THEN NoValue
     ELSE results[CHOOSE i \in S : \A j \in S : i <= j]

\* C30: extractJSON returns the result of the first strategy that parses, in
\* the order whole trimmed text, fenced block, inside of the [JSON] ...
\* [/JSON] marker pair, first '{' to last '}', and nothing when none parses
\* or the text is empty.
ExtractInStrategyOrder ==
  parsed.called =>
    LET t == Trim(text)
        r == FirstSuccess(<<JSONParse(t), ParseFenced(t), ParseBracketed(t),
                            ParseBraces(t)>>)
    IN parsed.ok = r.ok /\ parsed.value = r.value

\* ======================================================= AI client claims
\* C33: when a call's promise settles after its task body ran, the last
\* status notification of its category is 'active' or 'error': the
\* 'processing' notification was followed by one of them, on every outcome
\* of the call.
ProcessingIsFollowed ==
  ev.op = "respond" => status[ev.cat] \in {"active", "error"}

\* C35: a fetch that rejects fails its call at once (the promise resolves
\* with the failure value, nothing is sent again) and leaves llmMinInterval,
\* imageGenMinInterval, _cachedApiKey and _cachedAuthHeader as they were.
NetworkFailureKeepsBackoff ==
  [][(ev'.op = "respond" /\ ev'.status = 0)
     => /\ llmMinInterval' = llmMinInterval
        /\ imageGenMinInterval' = imageGenMinInterval
        /\ _cachedApiKey' = _cachedApiKey
        /\ _cachedAuthHeader' = _cachedAuthHeader
        /\ pc'[ev'.t] = "done"
        /\ result'[ev'.t] = "null"
        /\ sent' = sent]_vars

\* a text call failed at the network after a 429 had raised llmMinInterval
NetworkFailureWitness ==
  /\ ev.op = "respond" /\ ev.status = 0 /\ ev.cat = "text"
  /\ llmMinInterval > LlmBaseInterval
  /\ _cachedAuthHeader # NoHeader
  /\ result[ev.t] = "null"

ImageIntervalWithinBounds ==
  /\ [](imageGenMinInterval >= 3000 /\ imageGenMinInterval <= 30000)
  /\ [][IF ev'.op = "respond" /\ ev'.cat = "image" /\ ev'.status = 429
        THEN /\ imageGenMinInterval' >= imageGenMinInterval
             /\ imageGenMinInterval' =
                  IF 3 * imageGenMinInterval >= 2 * 30000 THEN 30000
                  ELSE (3 * imageGenMinInterval) \div 2
        ELSE IF /\ ev'.op = "respond" /\ ev'.cat = "image"
                /\ ev'.status = 200 /\ result'[ev'.t] = "value"
        THEN /\ imageGenMinInterval' <= imageGenMinInterval
             /\ imageGenMinInterval' =
                  IF 9 * imageGenMinInterval <= 10 * 3000 THEN 3000
                  ELSE (9 * imageGenMinInterval) \div 10
        ELSE imageGenMinInterval' = imageGenMinInterval]_vars

\* the interval reached its cap and another 429 has just come in
ImageIntervalWitness ==
  /\ ev.op = "respond" /\ ev.cat = "image" /\ ev.status = 429
  /\ imageGenMinInterval = 30000
  /\ calls >= 6

\* ------------------------------------------------- claims on storing a page

\* the reply of PageReplies that holds the page with the given prose
ArrivedObject(prose) ==
  (CHOOSE r \in PageReplies : r.kind = "json" /\ r.obj.prose = prose).obj

StoredChoicesAtMostSix ==
  /\ [](\A i \in 1..Len(sessions) : \A p \in DOMAIN sessions[i].pages :
          Len(sessions[i].pages[p].choices) <= 6)
  /\ [][bev'.op = "arrive" =>
          LET o == ArrivedObject(bev'.reply)
              stored == sessions'[bev'.s].pages[o.page_id].choices
          IN IF o.isArray
             THEN /\ Len(stored) = IF Len(o.choices) > 6 THEN 6
                                   ELSE Len(o.choices)
                  /\ \A k \in 1..Len(stored) : stored[k] = o.choices[k]
             ELSE stored = <<>>
     ]_vars
  /\ [][(/\ bev'.op = "choose"
         /\ bookSession # 0
         /\ sessions[bookSession].current # Null
         /\ sessions[bookSession].pages[sessions[bookSession].current]
              .choices = <<>>)
        => sessions' = sessions /\ gens' = gens /\ stats' = stats
     ]_vars

\* the page with seven choices has arrived and is stored with six
StoredChoicesWitness ==
  /\ bev.op = "arrive"
  /\ bev.reply = "prose4"
  /\ Len(LongPage.choices) = 7
  /\ Len(sessions[bev.s].pages["p3"].choices) = 6

\* ------------------------------------- claims on choice effects and events

\* every choose that goes ahead applies the effects of its choice once
\* (books.js 90) and issues one generation call (94), so the calls issued by
\* a choose count the applications of choice effects
ChoiceEffectApplications ==
  Cardinality({g \in 1..Len(gens) : gens[g].byChoice})

\* the choice-driven generation calls whose page arrived and was stored
CompletedChoiceTransitions ==
  Cardinality({g \in 1..Len(gens) :
                 gens[g].byChoice /\ gens[g].phase = "done"})

\* C38: once no generation call is outstanding, the effects of choices have
\* been applied as many times as choice-driven page transitions completed
ChoiceEffectsOncePerTransition ==
  (\A g \in 1..Len(gens) : gens[g].phase # "awaiting") =>
    ChoiceEffectApplications = CompletedChoiceTransitions

\* C39: the book_page event and the snapshot published when a page arrives
\* go to the topic of the book the page was generated for and carry the path
\* and the current page id of that book's session
PublishedForGeneratedBook ==
  bev.op = "arrive" =>
    /\ bev.pub.topic = gens[bev.g].book
    /\ bev.pub.path = sessions[bev.s].path
    /\ bev.pub.page_id = sessions[bev.s].current
    /\ bev.pub.current = sessions[bev.s].current

\* --------------------------------------------------------- entering a room

\* number of enterRoom calls in a run
MaxMoves == 4

\* four rooms of defaultRooms, content.js 26-66: their literary field,
\* whether the name includes 'Shadow', and the exits that lead to one of the
\* four
roomTemplates ==
  [entrance |->
     [literary |-> "borges", shadowName |-> FALSE,
      exits |-> {"hall_of_mirrors", "shadow_archive"}],
   hall_of_mirrors |->
     [literary |-> "carroll", shadowName |-> FALSE,
      exits |-> {"entrance", "quantum_laboratory"}],
   shadow_archive |->
     [literary |-> "jung", shadowName |-> TRUE, exits |-> {"entrance"}],
   quantum_laboratory |->
     [literary |-> "science", shadowName |-> FALSE,
      exits |-> {"hall_of_mirrors"}]]

\* how aterna.publish, aterna.js 57-66, ends: the fetch resolves with an ok
\* status, resolves with an error status, or rejects; only the last makes
\* the promise of publish reject
PublishOutcomes == {"ok", "http_error", "network_error"}

\* applyQuantumEffects, game.js 1407-1410, in thousandths
applyQuantumEffects(r, tpl) ==
  [r EXCEPT
     !.coherence = IF tpl.literary = "science" THEN Min(Milli, @ + 50) ELSE @,
     !.shadowIntegration = IF tpl.shadowName THEN Min(Milli, @ + 20) ELSE @]

\* enterRoom after its last await, game.js 475-495, with aiEnabled false:
\* the offline description, items and exits are put out, the room effects
\* are applied and the state is saved
EnterRoomEnd(r) ==
  [applyQuantumEffects(r, roomTemplates[r.currentRoom])
     EXCEPT !.awaiting = 0, !.last = "entered"]

\* enterRoom up to its first await, game.js 451-461: with Aterna enabled the
\* leave (when there was a room before), join, move and player-state
\* publishes are awaited one after the other, without it the call runs to
\* its end
enterRoom(r, roomId) ==
  LET r1 == [r EXCEPT !.currentRoom = roomId,
                      !.visitedRooms = @ \cup {roomId},
                      !.trail = Append(@, roomId)]
  IN IF r.aterna
     THEN [r1 EXCEPT !.awaiting = IF r.currentRoom # Null THEN 4 ELSE 3,
                     !.last = "enter"]
     ELSE EnterRoomEnd(r1)

\* startGame, game.js 383-390, with or without Aterna
StartGame(enabled) ==
  /\ UNCHANGED <<aiVars, legacyVars, bookVars, askPending, fxVars, text,
                 parsed, calls>>
  /\ room.trail = <<>>
  /\ room' = enterRoom([room EXCEPT !.aterna = enabled], "entrance")

\* handleMovement, game.js 862-875, called once the earlier enterRoom ended
Go(roomId) ==
  /\ UNCHANGED <<aiVars, legacyVars, bookVars, askPending, fxVars, text,
                 parsed, calls>>
  /\ room.currentRoom # Null
  /\ room.awaiting = 0
  /\ Len(room.trail) < MaxMoves
  /\ roomId \in roomTemplates[room.currentRoom].exits
  /\ room' = enterRoom(room, roomId)

\* the publish that enterRoom awaits settles, game.js 461-470: a rejection
\* is caught nowhere, neither in publishPresence, publishRoomEvent or
\* publishPlayerState (1201-1233) nor in enterRoom, so the promise of
\* enterRoom rejects and the rest of its body does not run
PublishSettles(outcome) ==
  /\ UNCHANGED <<aiVars, legacyVars, bookVars, askPending, fxVars, text,
                 parsed, calls>>
  /\ room.awaiting > 0
  /\ room' = IF outcome = "network_error"
             THEN [room EXCEPT !.awaiting = 0, !.last = "rejected"]
             ELSE IF room.awaiting = 1 THEN EnterRoomEnd(room)
             ELSE [room EXCEPT !.awaiting = @ - 1, !.last = outcome]

RoomNext ==
  \/ \E enabled \in BOOLEAN : StartGame(enabled)
  \/ \E roomId \in DOMAIN roomTemplates : Go(roomId)
  \/ \E outcome \in PublishOutcomes : PublishSettles(outcome)

RoomSpec == Init /\ [][RoomNext]_vars

\* how often the rooms entered so far satisfy the test
Entries(Test(_)) ==
  Cardinality({i \in 1..Len(room.trail) :
                 Test(roomTemplates[room.trail[i]])})

IsScience(tpl) == tpl.literary = "science"

HasShadowName(tpl) == tpl.shadowName

\* C32: a publish that fails does not abort the operation that triggered it:
\* once enterRoom has ended, the effects of every room entered have been
\* applied, whatever the publishes of the entries did
PublishFailureNeverAborts ==
  room.awaiting = 0 =>
    /\ room.coherence = Min(Milli, 50 * Entries(IsScience))
    /\ room.shadowIntegration = Min(Milli, 20 * Entries(HasShadowName))

\* ------------------------------------------------ claim on the round trip

\* C31: extractJSON of the JSON of a page object, alone, in a fenced block
\* or with prose around it, is an object equal to the one serialised
RoundTripYieldsEqualObject ==
  parsed.called =>
    \A o \in PageObjects :
      text \in Wrappings(o) =>
        parsed.ok /\ parsed.value = JSONStringify(o)
====
